---- MODULE Spec2Model ----
(***************************************************************************)
(* Batch fetch of per-track audio features, as implemented by              *)
(*   - fetch_audio_features (traditional spotipy loop) in Spotify.py and   *)
(*     "Spotify copy.py",                                                  *)
(*   - SpotifyAudioFeatures.fetch_audio_features in                        *)
(*     spotify_audio_features.py,                                          *)
(* and the row merge of process_csv_files that consumes the result.        *)
(***************************************************************************)
EXTENDS Integers, Sequences, FiniteSets, TLC

\* ------------------------------------------------------------------ bounds
MaxLen == 3            \* longest input sequence explored
MaxBatch == 2          \* largest batch_size explored for the direct calls
CallCap == 4           \* the per-batch call counters saturate at this value

\* ------------------------------------------------------- program constants
DefaultBatchSize == 50 \* batch_size default of fetch_audio_features
ApiLimit == 100        \* the cap applied by SpotifyAudioFeatures.__init__
retries == 3           \* retries default of fetch_audio_features
max_retries == 3       \* SpotifyAudioFeatures.max_retries
retry_delay == 5       \* retry_delay default / SpotifyAudioFeatures.retry_delay
RateLimitStatus == 429 \* the http_status tested by both handlers

\* ------------------------------------------------------------------- data
None == "None"                 \* Python None as a track identifier
Ids == {"a", "b"}              \* real track identifiers
OptIds == Ids \cup {None}      \* what a directly passed track_ids list holds

\* Python truthiness of a list entry, as tested by "if id"
Truthy(id) == id # None /\ id # ""

\* One entry of a lookup response / of the returned list.  NoFeatures is the
\* Python None; full tells whether the record carries every required feature.
NoFeatures == [id |-> None, full |-> FALSE]
Full(id) == [id |-> id, full |-> TRUE]
Partial(id) == [id |-> id, full |-> FALSE]

Min(a, b) == IF a < b THEN a ELSE b
Bump(n) == Min(n + 1, CallCap)

SeqsUpTo(S, n) == UNION {[1..k -> S] : k \in 0..n}

\* A cell of the spotify_track_uri column: NaN, a string (given by its
\* colon-separated segments) or a value of another type.
NaN == [type |-> "nan", segs |-> <<>>]
Str(segs) == [type |-> "str", segs |-> segs]
Uris == {NaN, Str(<<"spotify", "track", "a">>), Str(<<"spotify", "track", "b">>),
         Str(<<"spotify", "track", "">>)}

\* get_track_ids_from_uris of Spotify.py: NaN gives None, a string gives
\* uri.split(':')[-1], anything else raises AttributeError and gives None.
TrackIdOfUri(uri) ==
    IF uri.type = "nan" THEN None
    ELSE IF uri.type = "str" THEN uri.segs[Len(uri.segs)]
    ELSE None

get_track_ids_from_uris(track_uris) ==
    [i \in 1..Len(track_uris) |-> TrackIdOfUri(track_uris[i])]

\* track_ids[batch_start:batch_start + batch_size] with a 0-based start
Window(ids, start, size) ==
    SubSeq(ids, start + 1, Min(start + size, Len(ids)))

\* Mutation of BatchIds: the window is passed on unfiltered.
BatchIdsUnfiltered(ids, start, size) == Window(ids, start, size)

\* [id for id in window if id]
BatchIds(ids, start, size) == SelectSeq(Window(ids, start, size), Truthy)

\* [None] * len(batch_ids)
Nones(n) == [i \in 1..n |-> NoFeatures]

\* What the remote lookup may return for a request: one entry per requested
\* identifier, each a complete record, an incomplete record or null.  The
\* shapes explored have at most one entry that is not a complete record,
\* and that one among the first MaxLen positions.
ResponsesFor(ids) ==
    {[i \in 1..Len(ids) |-> "full"]} \cup
    {[i \in 1..Len(ids) |-> IF i = k THEN d ELSE "full"] :
        k \in 1..Min(Len(ids), MaxLen), d \in {"partial", "null"}}

Response(ids, shape) ==
    [i \in 1..Len(ids) |->
        IF shape[i] = "full" THEN Full(ids[i])
        ELSE IF shape[i] = "partial" THEN Partial(ids[i])
        ELSE NoFeatures]

\* AudioFeatureValidator.validate_features
validate_features(f) == f # NoFeatures /\ f.full

\* Mutation of ValidBatch: a null entry fails the validation.
ValidBatchNoNulls(fb) ==
    /\ fb # <<>>
    /\ \A i \in 1..Len(fb) : validate_features(fb[i])

\* features_batch and all(not f or validate_features(f) for f in features_batch)
ValidBatch(fb) ==
    /\ fb # <<>>
    /\ \A i \in 1..Len(fb) : fb[i] = NoFeatures \/ validate_features(fb[i])

\* ------------------------------------------------------------------ state
VARIABLES
    entry,               \* "csv" (process_csv_files), "trad", "saf"
    uris,                \* the spotify_track_uri column (csv entry)
    track_ids,           \* the fetcher's input
    batch_size,
    pc,                  \* position of the single thread of control
    batch_start,
    batch_ids,
    attempt,             \* loop index of "for attempt in range(retries)"
    retry_count,         \* SpotifyAudioFeatures' retry counter
    success,
    features_batch,
    audio_features_list,
    merged,              \* the feature columns of the concatenated table
    \* ---- observation of the current batch (history, not program state)
    n_calls,             \* lookup calls made for the batch (saturating)
    n_429,               \* of which raised a 429 (saturating)
    kinds,               \* classes of failed attempts seen for the batch
    first_kind,          \* outcome class of the batch's first attempt
    last_sleep,          \* seconds slept by the latest attempt's handler
    out_mark,            \* len(audio_features_list) when the batch started
    lookup_args,         \* arguments of the latest lookup call
    lookup_at,           \* batch_start at the latest lookup call
    total_calls,         \* lookup calls made by the whole fetch (saturating)
    all_429,             \* every lookup call of the fetch raised a 429
    all_echo,            \* every lookup call of the fetch returned one
                         \* record per requested identifier
    \* ---- the retry wrappers of authentication.py and music_api_client.py
    inputs,              \* the arguments of the call under study
    calls,               \* calls made to the wrapped operation so far
    sleeps,              \* the time.sleep durations so far, in order
    last_error,          \* last_error of _retry_on_failure
    result,              \* how the call under study ended
    \* ---- more of the fetch loop
    iterations,          \* passes through the outer while loop (saturating)
    progress,            \* what progress_callback was given, in order
    \* ---- token manager, .env file and callback server
    last_refresh,        \* TokenManager.last_refresh
    env,                 \* the .env file
    received_auth_code,  \* the module global of spotify_auth_local.py
    http_status,         \* status of the response sent to the latest request
    sockets              \* listening sockets opened and not closed

vars == <<entry, uris, track_ids, batch_size, pc, batch_start, batch_ids,
          attempt, retry_count, success, features_batch, audio_features_list,
          merged, n_calls, n_429, kinds, first_kind, last_sleep, out_mark,
          lookup_args, lookup_at, total_calls, all_429, all_echo,
          inputs, calls, sleeps, last_error, result, iterations, progress,
          last_refresh, env, received_auth_code, http_status, sockets>>

prog == <<batch_start, batch_ids, attempt, retry_count, success,
          features_batch, audio_features_list>>
wrap == <<inputs, calls, sleeps, last_error, result>>
ext == <<last_refresh, env, received_auth_code, http_status, sockets>>
hist == <<n_calls, n_429, kinds, first_kind, last_sleep, out_mark,
          lookup_args, lookup_at, total_calls, all_429, all_echo, wrap,
          iterations, progress, ext>>

InitCommon ==
    /\ batch_start = 0
    /\ batch_ids = <<>>
    /\ attempt = 0
    /\ retry_count = 0
    /\ success = FALSE
    /\ features_batch = <<>>
    /\ audio_features_list = <<>>
    /\ merged = <<>>
    /\ n_calls = 0
    /\ n_429 = 0
    /\ kinds = {}
    /\ first_kind = "none"
    /\ last_sleep = 0
    /\ out_mark = 0
    /\ lookup_args = <<>>
    /\ lookup_at = 0
    /\ total_calls = 0
    /\ all_429 = TRUE
    /\ all_echo = TRUE
    /\ iterations = 0
    /\ progress = <<>>

\* the .env file does not exist
NoFile == [exists |-> FALSE, lines |-> <<>>]

\* no file, no token manager and no callback server is involved
ExtIdle ==
    /\ last_refresh = 0
    /\ env = NoFile
    /\ received_auth_code = "None"
    /\ http_status = 0
    /\ sockets = 0

\* no retry wrapper is running
WrapIdle ==
    /\ inputs = <<>>
    /\ calls = 0
    /\ sleeps = <<>>
    /\ last_error = "None"
    /\ result = "pending"

\* process_csv_files is entered with a table; the two fetchers may also be
\* called directly with any list of optional identifiers.
Init ==
    /\ InitCommon
    /\ WrapIdle
    /\ ExtIdle
    /\ \/ /\ entry = "csv"
          /\ uris \in SeqsUpTo(Uris, MaxLen)
          /\ track_ids = <<>>
          /\ batch_size = DefaultBatchSize
          /\ pc = "extract"
       \/ /\ entry = "trad"
          /\ uris = <<>>
          /\ track_ids \in SeqsUpTo(OptIds, MaxLen)
          /\ batch_size \in 1..MaxBatch
          /\ pc = "loop"
       \/ /\ entry = "saf"
          /\ uris = <<>>
          /\ track_ids \in SeqsUpTo(OptIds, MaxLen)
          /\ \E bs \in 1..MaxBatch : batch_size = Min(bs, ApiLimit)
          /\ pc = "loop"

IsTrad == entry \in {"csv", "trad"}
IsSaf == entry = "saf"

\* ---------------------------------------------------- environment inputs
NoRetryAfter == 0 - 1          \* the 429 error carries no Retry-After header
RetryAfterHeaders == {NoRetryAfter, 7}
ErrorStatuses == {403, 500}    \* non-429 statuses a SpotifyException carries

\* Mutation of WaitTime: the Retry-After header is not read.
WaitTimeFixed(header) == retry_delay

\* int(e.headers.get('Retry-After', retry_delay))
WaitTime(header) == IF header = NoRetryAfter THEN retry_delay ELSE header

KindOfStatus(status) == IF status = 403 THEN "forbidden" ELSE "retryable"

\* str(e) of a SpotifyException
ErrorText(status, header) ==
    IF status # RateLimitStatus THEN "SpotifyException " \o ToString(status)
    ELSE IF header = NoRetryAfter THEN "SpotifyException 429"
    ELSE "SpotifyException 429 Retry-After: " \o ToString(header)

\* Bookkeeping of one lookup call (observation only).
IsEcho(ids, resp) ==
    /\ Len(resp) = Len(ids)
    /\ \A i \in 1..Len(resp) : resp[i] # NoFeatures /\ resp[i].id = ids[i]

\* exc is the rate-limit error the attempt caught, "None" for any other
\* outcome.
ObserveError(kind, slept, echoed, exc) ==
    /\ n_calls' = Bump(n_calls)
    /\ total_calls' = Bump(total_calls)
    /\ n_429' = IF kind = "rl" THEN Bump(n_429) ELSE n_429
    /\ kinds' = IF kind = "ok" THEN kinds ELSE kinds \cup {kind}
    /\ first_kind' = IF n_calls = 0 THEN kind ELSE first_kind
    /\ last_sleep' = slept
    /\ all_429' = (all_429 /\ kind = "rl")
    /\ all_echo' = (all_echo /\ echoed)
    /\ lookup_args' = batch_ids
    /\ lookup_at' = batch_start
    /\ last_error' = exc
    /\ UNCHANGED <<out_mark, inputs, calls, sleeps, result, iterations,
                   progress, ext>>

Observe(kind, slept, echoed) == ObserveError(kind, slept, echoed, "None")

ResetObservation ==
    /\ n_calls' = 0
    /\ n_429' = 0
    /\ kinds' = {}
    /\ first_kind' = "none"
    /\ last_sleep' = 0
    /\ out_mark' = Len(audio_features_list)
    /\ last_error' = "None"
    /\ iterations' = Bump(iterations)
    /\ UNCHANGED <<lookup_args, lookup_at, total_calls, all_429, all_echo,
                   inputs, calls, sleeps, result, progress, ext>>

\* ------------------------------------------------------ process_csv_files
\* df['track_id'] = get_track_ids_from_uris(df['spotify_track_uri'])
ExtractIds ==
    /\ pc = "extract"
    /\ track_ids' = get_track_ids_from_uris(uris)
    /\ pc' = "loop"
    /\ UNCHANGED <<entry, uris, batch_size, merged, prog, hist>>

\* ------------------------------------------------- the outer window loop
\* while batch_start < len(track_ids): a window without a usable
\* identifier only advances batch_start.
WindowSkip ==
    /\ pc = "loop"
    /\ batch_start < Len(track_ids)
    /\ BatchIds(track_ids, batch_start, batch_size) = <<>>
    /\ batch_ids' = <<>>
    /\ batch_start' = batch_start + batch_size
    /\ ResetObservation
    /\ UNCHANGED <<entry, uris, track_ids, batch_size, pc, attempt,
                   retry_count, success, features_batch,
                   audio_features_list, merged>>

WindowStart ==
    /\ pc = "loop"
    /\ batch_start < Len(track_ids)
    /\ BatchIds(track_ids, batch_start, batch_size) # <<>>
    /\ batch_ids' = BatchIds(track_ids, batch_start, batch_size)
    /\ success' = FALSE
    /\ attempt' = 0
    /\ retry_count' = 0
    /\ features_batch' = <<>>
    /\ pc' = "attempt"
    /\ ResetObservation
    /\ UNCHANGED <<entry, uris, track_ids, batch_size, batch_start,
                   audio_features_list, merged>>

\* ------------------------------- Spotify.py: for attempt in range(retries)
\* Position after one failed pass through the for body.
TradNextAttempt ==
    /\ attempt' = attempt + 1
    /\ pc' = IF attempt + 1 < retries THEN "attempt" ELSE "resolve"

\* sp.audio_features returned: a truthy batch is appended at once and the
\* loop is left; a falsy one falls through to the next attempt unslept.
TradLookupReturns(resp) ==
    /\ features_batch' = resp
    /\ IF resp # <<>>
       THEN /\ audio_features_list' = audio_features_list \o resp
            /\ success' = TRUE
            /\ pc' = "resolve"
            /\ UNCHANGED attempt
            /\ Observe("ok", 0, IsEcho(batch_ids, resp))
       ELSE /\ TradNextAttempt
            /\ Observe("bad", 0, FALSE)
            /\ UNCHANGED <<audio_features_list, success>>

\* except spotipy.SpotifyException with http_status == 429
TradRateLimited(header) ==
    /\ TradNextAttempt
    /\ ObserveError("rl", WaitTime(header), FALSE,
                    ErrorText(RateLimitStatus, header))
    /\ UNCHANGED <<features_batch, audio_features_list, success>>

\* Mutation of TradSpotifyError: a 403 leaves the retry loop unslept.
TradSpotifyErrorAbandons(status) ==
    /\ IF status = 403
       THEN /\ attempt' = attempt + 1
            /\ pc' = "resolve"
            /\ Observe(KindOfStatus(status), 0, FALSE)
       ELSE /\ TradNextAttempt
            /\ Observe(KindOfStatus(status), retry_delay, FALSE)
    /\ UNCHANGED <<features_batch, audio_features_list, success>>

\* except spotipy.SpotifyException, any other status
TradSpotifyError(status) ==
    /\ TradNextAttempt
    /\ Observe(KindOfStatus(status), retry_delay, FALSE)
    /\ UNCHANGED <<features_batch, audio_features_list, success>>

\* except Exception
TradException ==
    /\ TradNextAttempt
    /\ Observe("retryable", retry_delay, FALSE)
    /\ UNCHANGED <<features_batch, audio_features_list, success>>

TradGuard == pc = "attempt" /\ IsTrad /\ attempt < retries
TradFrame == UNCHANGED <<entry, uris, track_ids, batch_size, batch_start,
                         batch_ids, retry_count, merged>>

TradReturns ==
    /\ TradGuard
    /\ \E resp \in {Response(batch_ids, sh) : sh \in ResponsesFor(batch_ids)}
                   \cup {<<>>} : TradLookupReturns(resp)
    /\ TradFrame

\* except spotipy.SpotifyException as e: if e.http_status == 429 ... else ...
TradRaisesSpotify ==
    /\ TradGuard
    /\ \E st \in ErrorStatuses \cup {RateLimitStatus}, h \in RetryAfterHeaders :
          IF st = RateLimitStatus
          THEN TradRateLimited(h)
          ELSE h = NoRetryAfter /\ TradSpotifyError(st)
    /\ TradFrame

TradRaisesOther ==
    /\ TradGuard
    /\ TradException
    /\ TradFrame

\* if not success: extend([None] * len(batch_ids)); batch_start += batch_size
TradResolve ==
    /\ pc = "resolve"
    /\ IsTrad
    /\ audio_features_list' =
          IF success THEN audio_features_list
          ELSE audio_features_list \o Nones(Len(batch_ids))
    /\ batch_start' = batch_start + batch_size
    /\ pc' = "loop"
    /\ UNCHANGED <<entry, uris, track_ids, batch_size, batch_ids, attempt,
                   retry_count, success, features_batch, merged, hist>>

\* Mutation of SafCountedFailure: the backoff is not scaled by the count.
SafCountedFailureFlat(kind, echoed) ==
    /\ retry_count' = retry_count + 1
    /\ IF retry_count + 1 = max_retries
       THEN /\ pc' = "raised"
            /\ Observe(kind, 0, echoed)
       ELSE /\ pc' = "attempt"
            /\ Observe(kind, retry_delay, echoed)

\* ---------- spotify_audio_features.py: while not success and retry_count <
\* max_retries.  A counted failure that reaches max_retries raises
\* SpotifyAudioFeaturesError from inside the except clause, which no
\* enclosing handler catches: the exception leaves fetch_audio_features.
SafCountedFailure(kind, echoed) ==
    /\ retry_count' = retry_count + 1
    /\ IF retry_count + 1 = max_retries
       THEN /\ pc' = "raised"
            /\ Observe(kind, 0, echoed)
       ELSE /\ pc' = "attempt"
            /\ Observe(kind, retry_delay * (retry_count + 1), echoed)

\* self.sp.audio_features returned: a batch that passes validation ends the
\* retry loop; any other raises SpotifyAudioFeaturesError inside the try,
\* which the "except Exception" clause counts as a failure.
SafLookupReturns(resp) ==
    /\ features_batch' = resp
    /\ IF ValidBatch(resp)
       THEN /\ success' = TRUE
            /\ pc' = "resolve"
            /\ UNCHANGED retry_count
            /\ Observe("ok", 0, IsEcho(batch_ids, resp))
       ELSE /\ SafCountedFailure("bad", IsEcho(batch_ids, resp))
            /\ UNCHANGED success

\* Mutation of SafRateLimited: the 429 is counted like any other failure.
SafRateLimitedCounted(header) ==
    /\ SafCountedFailure("rl", FALSE)
    /\ UNCHANGED <<features_batch, success>>

\* except SpotifyException with http_status == 429: sleep, nothing counted
SafRateLimited(header) ==
    /\ pc' = "attempt"
    /\ ObserveError("rl", WaitTime(header), FALSE,
                    ErrorText(RateLimitStatus, header))
    /\ UNCHANGED <<retry_count, features_batch, success>>

\* except SpotifyException, any other status
SafSpotifyError(status) ==
    /\ SafCountedFailure(KindOfStatus(status), FALSE)
    /\ UNCHANGED <<features_batch, success>>

\* except Exception
SafException ==
    /\ SafCountedFailure("retryable", FALSE)
    /\ UNCHANGED <<features_batch, success>>

SafGuard == pc = "attempt" /\ IsSaf /\ ~success /\ retry_count < max_retries
SafFrame == UNCHANGED <<entry, uris, track_ids, batch_size, batch_start,
                        batch_ids, attempt, audio_features_list, merged>>

SafReturns ==
    /\ SafGuard
    /\ \E resp \in {Response(batch_ids, sh) : sh \in ResponsesFor(batch_ids)}
                   \cup {<<>>} : SafLookupReturns(resp)
    /\ SafFrame

SafRaisesSpotify ==
    /\ SafGuard
    /\ \E st \in ErrorStatuses \cup {RateLimitStatus}, h \in RetryAfterHeaders :
          IF st = RateLimitStatus
          THEN SafRateLimited(h)
          ELSE h = NoRetryAfter /\ SafSpotifyError(st)
    /\ SafFrame

SafRaisesOther ==
    /\ SafGuard
    /\ SafException
    /\ SafFrame

\* progress = min((batch_start + self.batch_size) / total_tracks * 100, 100),
\* kept as the numerator of a fraction with denominator total_tracks.
ProgressValue(start) ==
    Min((start + batch_size) * 100, 100 * Len(track_ids))

\* if success and features_batch: extend(features_batch)
\* else: extend([None] * len(batch_ids)); progress_callback(progress);
\* batch_start += self.batch_size
SafResolve ==
    /\ pc = "resolve"
    /\ IsSaf
    /\ audio_features_list' =
          IF success /\ features_batch # <<>>
          THEN audio_features_list \o features_batch
          ELSE audio_features_list \o Nones(Len(batch_ids))
    /\ progress' = Append(progress, ProgressValue(batch_start))
    /\ batch_start' = batch_start + batch_size
    /\ pc' = "loop"
    /\ UNCHANGED <<entry, uris, track_ids, batch_size, batch_ids, attempt,
                   retry_count, success, features_batch, merged,
                   n_calls, n_429, kinds, first_kind, last_sleep, out_mark,
                   lookup_args, lookup_at, total_calls, all_429, all_echo,
                   wrap, iterations, ext>>

\* ------------------------------------------------------------- the return
\* return audio_features_list
Return ==
    /\ pc = "loop"
    /\ batch_start >= Len(track_ids)
    /\ pc' = IF entry = "csv" THEN "merge" ELSE "done"
    /\ UNCHANGED <<entry, uris, track_ids, batch_size, merged, prog, hist>>

Max(a, b) == IF a > b THEN a ELSE b

\* pd.concat([df, pd.DataFrame(audio_features)], axis=1): both frames carry
\* the default index 0..n-1, so row i receives entry i of the list and rows
\* beyond the list's end receive nulls.
ConcatColumns(nrows, features) ==
    [i \in 1..Max(nrows, Len(features)) |->
        IF i <= Len(features) THEN features[i] ELSE NoFeatures]

Merge ==
    /\ pc = "merge"
    /\ merged' = ConcatColumns(Len(uris), audio_features_list)
    /\ pc' = "done"
    /\ UNCHANGED <<entry, uris, track_ids, batch_size, prog, hist>>

Next ==
    \/ ExtractIds
    \/ WindowSkip
    \/ WindowStart
    \/ TradReturns
    \/ TradRaisesSpotify
    \/ TradRaisesOther
    \/ TradResolve
    \/ SafReturns
    \/ SafRaisesSpotify
    \/ SafRaisesOther
    \/ SafResolve
    \/ Return
    \/ Merge

Spec == Init /\ [][Next]_vars

\* The program is one sequential thread: whenever it has a next step it
\* takes it (every sleep ends, every lookup call returns or raises).
FairSpec == Spec /\ WF_vars(Next)

TypeOK ==
    /\ entry \in {"csv", "trad", "saf"}
    /\ pc \in {"extract", "loop", "attempt", "resolve", "merge", "done", "raised"}
    /\ batch_size \in Nat
    /\ n_calls \in 0..CallCap

\* ================================================================ claims
\* fetch_audio_features has returned its list to the caller
Returned == pc \in {"merge", "done"}

\* the batch observed by n_calls .. last_sleep has left the retry loop
\* and its entries have been appended
BatchResolved == n_calls > 0 /\ pc \in {"loop", "merge", "done"}

\* what the batch appended to the output
Emitted ==
    SubSeq(audio_features_list, out_mark + 1, Len(audio_features_list))

AllTruthy(ids) == \A i \in 1..Len(ids) : Truthy(ids[i])

\* ceil(len(track_ids) / batch_size)
NumWindows == (Len(track_ids) + batch_size - 1) \div batch_size

\* C1: the returned list has exactly as many entries as the input, each a
\* metadata record or None; no input position is omitted.
C1_LengthPreserved ==
    Returned =>
        /\ Len(audio_features_list) = Len(track_ids)
        /\ \A i \in 1..Len(audio_features_list) :
              \/ audio_features_list[i] = NoFeatures
              \/ audio_features_list[i].id \in Ids

\* C2: the output is positionally aligned with the input: position i holds
\* the lookup result for input[i], and None where input[i] is absent.
C2_PositionallyAligned ==
    Returned =>
        \A i \in 1..Len(track_ids) :
            /\ i <= Len(audio_features_list)
            /\ ~Truthy(track_ids[i]) => audio_features_list[i] = NoFeatures
            /\ audio_features_list[i] # NoFeatures =>
                  audio_features_list[i].id = track_ids[i]

C4_ExhaustionYieldsNones ==
    (kinds = {"retryable"} /\ ~success /\ pc # "attempt") =>
        /\ n_calls = max_retries
        /\ pc # "raised"
        /\ BatchResolved => Emitted = Nones(Len(batch_ids))

\* C5: no lookup error aborts the fetch: no exception leaves
\* fetch_audio_features, and a failed batch resolves to None entries.
C5_NoErrorAborts ==
    /\ pc # "raised"
    /\ (BatchResolved /\ ~success) => Emitted = Nones(Len(batch_ids))

C7_LookupArguments ==
    total_calls > 0 =>
        /\ lookup_args # <<>>
        /\ \A i \in 1..Len(lookup_args) : Truthy(lookup_args[i])
        /\ lookup_at < Len(track_ids)
        /\ lookup_at % batch_size = 0
        /\ lookup_args =
              SelectSeq(Window(track_ids, lookup_at, batch_size), Truthy)

\* C7 witness: a lookup was made for a window holding absent entries, and
\* received only the window's other identifiers.
C7_Witness ==
    /\ total_calls > 0
    /\ Len(lookup_args) < Len(Window(track_ids, lookup_at, batch_size))
    /\ batch_start > 0

\* C8: with a lookup that always returns one record per requested
\* identifier and an input without absent entries, the fetcher returns
\* those records in input order using exactly ceil(n / batch_size) calls.
C8_RoundTrip ==
    (AllTruthy(track_ids) /\ all_echo) =>
        /\ pc # "raised"
        /\ total_calls <= NumWindows
        /\ Returned =>
              /\ total_calls = NumWindows
              /\ Len(audio_features_list) = Len(track_ids)
              /\ \A i \in 1..Len(track_ids) :
                    /\ audio_features_list[i] # NoFeatures
                    /\ audio_features_list[i].id = track_ids[i]

\* C9: when every lookup call fails with a 429 error the fetch still
\* returns, with None for every requested track.
C9_AlwaysRateLimitedReturns ==
    <>(\/ ~all_429
       \/ /\ Returned
          /\ \A i \in 1..Len(audio_features_list) :
                audio_features_list[i] = NoFeatures)

\* C10: process_csv_files attaches to every row the features fetched for
\* that row's own track identifier, and nulls to rows whose identifier is
\* absent or whose fetch failed.
C10_MergeAligned ==
    (entry = "csv" /\ pc = "done") =>
        /\ Len(merged) = Len(uris)
        /\ \A r \in 1..Len(uris) :
              /\ ~Truthy(track_ids[r]) => merged[r] = NoFeatures
              /\ merged[r] # NoFeatures => merged[r].id = track_ids[r]

\* ================================================ identifier extraction
\* get_track_ids_from_uris, both variants, as a function of the column.
MaxUris == 2           \* longest column explored for the extraction alone

\* Python None as an extraction result; a string result is Str(segs).
PyNone == [type |-> "none", segs |-> <<>>]
Num == [type |-> "int", segs |-> <<>>]      \* a cell that is not a string

\* len() of the segments used below; the identifiers of Ids stand for
\* well-formed 22-character track ids.
SegLen(seg) ==
    IF seg \in Ids THEN 22
    ELSE IF seg = "spotify" THEN 7
    ELSE IF seg = "track" THEN 5
    ELSE IF seg = "album" THEN 5
    ELSE IF seg = "short" THEN 5
    ELSE 0

RECURSIVE SumLen(_)
SumLen(segs) ==
    IF segs = <<>> THEN 0 ELSE SegLen(Head(segs)) + SumLen(Tail(segs))

\* len(s) of the string whose split(':') is segs
StrLen(segs) == SumLen(segs) + Len(segs) - 1

\* uri.startswith('spotify:track:')
StartsWithTrackPrefix(segs) ==
    Len(segs) >= 3 /\ segs[1] = "spotify" /\ segs[2] = "track"

ExtractUris ==
    {NaN, Num, Str(<<"">>), Str(<<"a">>),
     Str(<<"spotify", "track", "a">>), Str(<<"spotify", "track", "short">>),
     Str(<<"spotify", "track">>), Str(<<"spotify", "album", "a">>),
     Str(<<"spotify", "track", "album", "b">>)}

\* Mutation of TradExtractOne: the first segment is taken.
TradExtractFirst(uri) ==
    IF uri.type = "str" THEN Str(<<uri.segs[1]>>) ELSE PyNone

\* Spotify.py: one pass of the loop body of get_track_ids_from_uris
TradExtractOne(uri) ==
    IF TrackIdOfUri(uri) = None THEN PyNone ELSE Str(<<TrackIdOfUri(uri)>>)

\* spotify_audio_features.py: one pass of the loop body.  A non-string
\* cell raises AttributeError at startswith, which is caught.
SafExtractOne(uri) ==
    IF uri.type = "nan" THEN PyNone
    ELSE IF uri.type # "str" THEN PyNone
    ELSE LET track_id == IF StartsWithTrackPrefix(uri.segs)
                         THEN <<uri.segs[Len(uri.segs)]>>
                         ELSE uri.segs
         IN  IF StrLen(track_id) # 22 THEN PyNone ELSE Str(track_id)

ExtractInit ==
    /\ InitCommon
    /\ WrapIdle
    /\ ExtIdle
    /\ entry \in {"extract_trad", "extract_saf"}
    /\ uris \in SeqsUpTo(ExtractUris, MaxUris)
    /\ track_ids = <<>>
    /\ batch_size = DefaultBatchSize
    /\ pc = "extract_call"

TradExtract ==
    /\ pc = "extract_call"
    /\ entry = "extract_trad"
    /\ track_ids' = [i \in 1..Len(uris) |-> TradExtractOne(uris[i])]
    /\ pc' = "extracted"
    /\ UNCHANGED <<entry, uris, batch_size, merged, prog, hist>>

SafExtract ==
    /\ pc = "extract_call"
    /\ entry = "extract_saf"
    /\ track_ids' = [i \in 1..Len(uris) |-> SafExtractOne(uris[i])]
    /\ pc' = "extracted"
    /\ UNCHANGED <<entry, uris, batch_size, merged, prog, hist>>

ExtractNext == TradExtract \/ SafExtract

ExtractSpec == ExtractInit /\ [][ExtractNext]_vars

\* a reference of the form spotify:track:<22 characters>
ValidReference(uri) ==
    /\ uri.type = "str"
    /\ Len(uri.segs) = 3
    /\ StartsWithTrackPrefix(uri.segs)
    /\ SegLen(uri.segs[3]) = 22

LastSegment(uri) == Str(<<uri.segs[Len(uri.segs)]>>)

AuthRetries == 3       \* retries = 3 in authenticate_spotify

RECURSIVE Pow2(_)
Pow2(n) == IF n = 0 THEN 1 ELSE 2 * Pow2(n - 1)

\* Exception classes the OAuth library and the token manager may raise.
\* SpotifyOauthError and TypeError are not subclasses of SpotifyException.
LibraryErrors == {"SpotifyException", "SpotifyOauthError", "TypeError"}

\* the batch fetcher is not running
FetchIdle ==
    /\ InitCommon
    /\ uris = <<>>
    /\ track_ids = <<>>
    /\ batch_size = DefaultBatchSize

\* authenticate_spotify is called with any arguments: the four required
\* strings all non-empty or not, a redirect URI that parses or not.
AuthInit ==
    /\ FetchIdle
    /\ ExtIdle
    /\ entry = "auth"
    /\ inputs \in [params_ok : BOOLEAN, uri_ok : BOOLEAN, use_pkce : BOOLEAN]
    /\ calls = 0
    /\ sleeps = <<>>
    /\ last_error = "None"
    /\ result = "pending"
    /\ pc = "auth_validate"

AuthFrame == UNCHANGED <<entry, uris, track_ids, batch_size, batch_start,
                         batch_ids, retry_count, success, features_batch,
                         audio_features_list, merged, n_calls, n_429, kinds,
                         first_kind, last_sleep, out_mark, lookup_args,
                         lookup_at, total_calls, all_429, all_echo, inputs,
                         iterations, progress, ext>>

\* Mutation of AuthOuterExcept: the original exception is re-raised.
AuthOuterReraise(exc) ==
    /\ result' = "raised_" \o exc
    /\ last_error' = exc
    /\ pc' = "auth_done"
    /\ UNCHANGED <<attempt, sleeps>>

\* except Exception as e: raise SpotifyAuthError(...) from e
AuthOuterExcept(exc) ==
    /\ result' = "raised_SpotifyAuthError"
    /\ last_error' = exc
    /\ pc' = "auth_done"
    /\ UNCHANGED <<attempt, sleeps>>

\* except SpotifyException as e: on the last attempt SpotifyAuthError is
\* raised (and wrapped again by the outer handler), otherwise the loop
\* sleeps 2 ** attempt and goes on to the next attempt.
AuthInnerExcept ==
    IF attempt = AuthRetries - 1
    THEN AuthOuterExcept("SpotifyAuthError")
    ELSE /\ sleeps' = Append(sleeps, Pow2(attempt))
         /\ attempt' = attempt + 1
         /\ last_error' = "SpotifyException"
         /\ pc' = "auth_loop"
         /\ UNCHANGED result

\* an exception raised inside the inner try
AuthRaise(exc) ==
    IF exc = "SpotifyException" THEN AuthInnerExcept ELSE AuthOuterExcept(exc)

\* if not all([...]): raise; redirect_uri = validate_redirect_uri(...)
AuthValidate ==
    /\ pc = "auth_validate"
    /\ IF inputs.params_ok /\ inputs.uri_ok
       THEN /\ pc' = "auth_loop"
            /\ UNCHANGED <<attempt, sleeps, last_error, result>>
       ELSE AuthOuterExcept("SpotifyAuthError")
    /\ UNCHANGED calls
    /\ AuthFrame

\* for attempt in range(retries): a loop that runs out falls off the end
\* of the function, which returns None.
AuthLoop ==
    /\ pc = "auth_loop"
    /\ IF attempt < AuthRetries
       THEN pc' = "auth_oauth" /\ UNCHANGED result
       ELSE pc' = "auth_done" /\ result' = "returned_None"
    /\ UNCHANGED <<attempt, sleeps, last_error, calls>>
    /\ AuthFrame

\* auth_manager = SpotifyOAuth(**auth_kwargs)
AuthBuildManager ==
    /\ pc = "auth_oauth"
    /\ \/ /\ pc' = "auth_token"
          /\ UNCHANGED <<attempt, sleeps, last_error, result>>
       \/ \E exc \in LibraryErrors : AuthRaise(exc)
    /\ UNCHANGED calls
    /\ AuthFrame

\* token = token_manager.get_token(); if not token: raise SpotifyAuthError
AuthGetToken ==
    /\ pc = "auth_token"
    /\ \/ /\ pc' = "auth_verify"
          /\ UNCHANGED <<attempt, sleeps, last_error, result>>
       \/ AuthRaise("SpotifyAuthError")
       \/ \E exc \in LibraryErrors : AuthRaise(exc)
    /\ UNCHANGED calls
    /\ AuthFrame

\* sp = spotipy.Spotify(...); sp.current_user(); return sp
AuthVerify ==
    /\ pc = "auth_verify"
    /\ calls' = calls + 1
    /\ \/ /\ result' = "returned_client"
          /\ pc' = "auth_done"
          /\ UNCHANGED <<attempt, sleeps, last_error>>
       \/ \E exc \in LibraryErrors : AuthRaise(exc)
    /\ AuthFrame

AuthNext ==
    \/ AuthValidate
    \/ AuthLoop
    \/ AuthBuildManager
    \/ AuthGetToken
    \/ AuthVerify

AuthSpec == AuthInit /\ [][AuthNext]_vars

\* C12: authenticate_spotify ends by returning a client or by raising
\* SpotifyAuthError, never by returning None or raising anything else; it
\* calls current_user at most 3 times, and the sleeps between attempts
\* that failed with a SpotifyException are 1 s, then 2 s.
C12_AuthOutcomes ==
    /\ result \in {"pending", "returned_client", "raised_SpotifyAuthError"}
    /\ pc = "auth_done" <=> result # "pending"
    /\ calls <= 3
    /\ calls <= attempt + 1
    /\ attempt <= 2
    /\ sleeps = [i \in 1..attempt |-> IF i = 1 THEN 1 ELSE 2]

\* C12 witness: three verifications failed with a SpotifyException, with
\* sleeps of 1 s and 2 s between them, and SpotifyAuthError was raised.
C12_Witness ==
    /\ result = "raised_SpotifyAuthError"
    /\ calls = 3
    /\ sleeps = <<1, 2>>

\* ======================================= the three fetch routes at the cap
\* ------------------------------------------------ spotify_mcp_client.py
\* _call_mcp_tool: the body of its try is "return 'Success'"
call_mcp_tool(tool_name, args) == "Success"

\* the texts json.loads accepts, among those the model handles
JsonTexts == {"null", "[]"}

\* json.loads(text): the parsed value, or JSONDecodeError
json_loads(text) ==
    IF text \in JsonTexts
    THEN [raised |-> "None", value |-> <<>>]
    ELSE [raised |-> "JSONDecodeError", value |-> <<>>]

\* SpotifyMCPClient.get_audio_features: the parsed tool result, or one None
\* per identifier when the tool returned nothing or anything raised.
get_audio_features(ids) ==
    LET tool_result == call_mcp_tool("get_audio_features", ids)
        parsed == json_loads(tool_result)
    IN  IF tool_result = None
        THEN [logged |-> "None", value |-> Nones(Len(ids))]
        ELSE IF parsed.raised = "None"
             THEN [logged |-> "None", value |-> parsed.value]
             ELSE [logged |-> parsed.raised, value |-> Nones(Len(ids))]

\* Spotify.py fetch_audio_features, the "if use_mcp:" branch: the whole list
\* goes to the MCP client in one request and its answer is returned; the
\* except clause would restart the function with use_mcp=False.
McpFetch ==
    /\ pc = "mcp_call"
    /\ entry = "mcp"
    /\ LET answer == get_audio_features(track_ids)
       IN  /\ audio_features_list' = answer.value
           /\ last_error' = answer.logged
    /\ lookup_args' = track_ids
    /\ calls' = calls + 1
    /\ pc' = "done"
    /\ UNCHANGED <<entry, uris, track_ids, batch_size, batch_start, batch_ids,
                   attempt, retry_count, success, features_batch, merged,
                   n_calls, n_429, kinds, first_kind, last_sleep, out_mark,
                   lookup_at, total_calls, all_429, all_echo,
                   inputs, sleeps, result, iterations, progress, ext>>

\* ------------------------------------------------ lists around the cap
OverLimit == ApiLimit + 1

\* n identifiers, the last one absent when tail_absent
LongList(n, tail_absent) ==
    [i \in 1..n |-> IF i = n /\ tail_absent THEN None ELSE "a"]

\* Each fetcher called directly with a list of ApiLimit or ApiLimit + 1
\* entries and a requested batch_size of ApiLimit or ApiLimit + 1;
\* SpotifyAudioFeatures.__init__ stores min(batch_size, 100), the other two
\* store what they are given.
CapInit ==
    /\ InitCommon
    /\ WrapIdle
    /\ ExtIdle
    /\ uris = <<>>
    /\ \E n \in {ApiLimit, OverLimit}, t \in BOOLEAN :
          track_ids = LongList(n, t)
    /\ \E bs \in {ApiLimit, OverLimit} :
          \/ /\ entry = "trad"
             /\ batch_size = bs
             /\ pc = "loop"
          \/ /\ entry = "saf"
             /\ batch_size = Min(bs, ApiLimit)
             /\ pc = "loop"
          \/ /\ entry = "mcp"
             /\ batch_size = bs
             /\ pc = "mcp_call"

CapNext ==
    \/ McpFetch
    \/ WindowSkip
    \/ WindowStart
    \/ TradReturns
    \/ TradRaisesSpotify
    \/ TradRaisesOther
    \/ TradResolve
    \/ SafReturns
    \/ SafRaisesSpotify
    \/ SafRaisesOther
    \/ SafResolve
    \/ Return

CapSpec == CapInit /\ [][CapNext]_vars

\* C13: no lookup call of any of the three fetch routes is given more than
\* 100 identifiers, whatever batch_size the caller passes.
C13_BatchCap == Len(lookup_args) <= ApiLimit

\* ------------------------------------------------ rate limiting that clears
\* one attempt of SpotifyAudioFeatures answered by a 429 error
SafRateLimitStep ==
    /\ SafGuard
    /\ \E h \in RetryAfterHeaders : SafRateLimited(h)
    /\ SafFrame

\* C14: once the lookup has stopped raising 429 errors,
\* SpotifyAudioFeatures.fetch_audio_features resolves every batch and
\* returns; and an attempt answered by a 429 error starts no later batch and
\* appends nothing to the output.
C14_ClearsThenTerminates ==
    /\ (<>[][~SafRateLimitStep]_vars) => <>(IsSaf => pc = "done")
    /\ [][SafRateLimitStep =>
            /\ pc' = "attempt"
            /\ batch_start' = batch_start
            /\ audio_features_list' = audio_features_list]_vars

\* ------------------------------------------------ null entries in a response
\* a response holding a null entry, every other entry a complete record
NullsAmongComplete(fb) ==
    /\ \E i \in 1..Len(fb) : fb[i] = NoFeatures
    /\ \A i \in 1..Len(fb) : fb[i] = NoFeatures \/ fb[i].full

ClientRetryDelay == 2  \* self.retry_delay of MusicAPIClient
ClientMaxRetries == 3  \* self.max_retries of MusicAPIClient

\* Exceptions of the operation that are not SpotifyException: the HTTP
\* library's transport errors and timeouts.
TransportErrors == {"ConnectionError", "ReadTimeout"}

\* int(e.headers.get('Retry-After', self.retry_delay))
ClientWaitTime(header) ==
    IF header = NoRetryAfter THEN ClientRetryDelay ELSE header

\* _retry_on_failure is called with some operation of the client.
RetryInit ==
    /\ FetchIdle
    /\ ExtIdle
    /\ entry = "retry"
    /\ inputs \in {<<"current_user_top_tracks">>, <<"playlist_add_items">>}
    /\ calls = 0
    /\ sleeps = <<>>
    /\ last_error = "None"
    /\ result = "pending"
    /\ pc = "retry_loop"

RetryFrame == UNCHANGED <<entry, uris, track_ids, batch_size, batch_start,
                          batch_ids, retry_count, success, features_batch,
                          audio_features_list, merged, n_calls, n_429, kinds,
                          first_kind, last_sleep, out_mark, lookup_args,
                          lookup_at, total_calls, all_429, all_echo, inputs,
                         iterations, progress, ext>>

\* for attempt in range(self.max_retries); after the loop:
\* raise SpotifyAPIError(...)
RetryLoop ==
    /\ pc = "retry_loop"
    /\ IF attempt < ClientMaxRetries
       THEN pc' = "retry_call" /\ UNCHANGED result
       ELSE pc' = "retry_done" /\ result' = "raised_SpotifyAPIError"
    /\ UNCHANGED <<attempt, calls, sleeps, last_error>>
    /\ RetryFrame

\* return operation(*args, **kwargs)
RetryReturns ==
    /\ pc = "retry_call"
    /\ calls' = calls + 1
    /\ result' = "returned_result"
    /\ pc' = "retry_done"
    /\ UNCHANGED <<attempt, sleeps, last_error>>
    /\ RetryFrame

\* Mutation of RetryBackoff: the wait does not grow with the attempt.
RetryBackoffFlat(a) == ClientRetryDelay

\* self.retry_delay * (2 ** attempt)
RetryBackoff(a) == ClientRetryDelay * Pow2(a)

\* except spotipy.SpotifyException as e: a 429 sleeps its wait time; any
\* other status breaks out of the loop on the last attempt (and the raise
\* after the loop follows) and sleeps the backoff otherwise.
RetryRaisesSpotify ==
    /\ pc = "retry_call"
    /\ calls' = calls + 1
    /\ \E st \in ErrorStatuses \cup {RateLimitStatus}, h \in RetryAfterHeaders :
          /\ st # RateLimitStatus => h = NoRetryAfter
          /\ last_error' = ErrorText(st, h)
          /\ IF st = RateLimitStatus
             THEN /\ sleeps' = Append(sleeps, ClientWaitTime(h))
                  /\ attempt' = attempt + 1
                  /\ pc' = "retry_loop"
                  /\ UNCHANGED result
             ELSE IF attempt = ClientMaxRetries - 1
             THEN /\ result' = "raised_SpotifyAPIError"
                  /\ pc' = "retry_done"
                  /\ UNCHANGED <<attempt, sleeps>>
             ELSE /\ sleeps' = Append(sleeps, RetryBackoff(attempt))
                  /\ attempt' = attempt + 1
                  /\ pc' = "retry_loop"
                  /\ UNCHANGED result
    /\ RetryFrame

\* any other exception of the operation: no except clause matches, the
\* exception leaves _retry_on_failure.
RetryRaisesOther ==
    /\ pc = "retry_call"
    /\ calls' = calls + 1
    /\ \E exc \in TransportErrors : result' = "raised_" \o exc
    /\ pc' = "retry_done"
    /\ UNCHANGED <<attempt, sleeps, last_error>>
    /\ RetryFrame

RetryNext ==
    \/ RetryLoop
    \/ RetryReturns
    \/ RetryRaisesSpotify
    \/ RetryRaisesOther

RetrySpec == RetryInit /\ [][RetryNext]_vars

\* ------------------------------- the three retry loops side by side
FetchOrRetryInit == Init \/ RetryInit

FetchOrRetryNext == Next \/ RetryNext

FetchOrRetrySpec == FetchOrRetryInit /\ [][FetchOrRetryNext]_vars

\* C16: an attempt answered by a 429 error sleeps the error's Retry-After
\* value if it carries one and the base retry delay otherwise, within the
\* same handler run and for the same batch, in Spotify.py,
\* SpotifyAudioFeatures and MusicAPIClient._retry_on_failure.
C16_RateLimitWait ==
    /\ [][\A h \in RetryAfterHeaders :
            (pc = "attempt" /\ last_error' = ErrorText(RateLimitStatus, h))
            => /\ last_sleep' = IF h = NoRetryAfter THEN retry_delay ELSE h
               /\ batch_start' = batch_start
               /\ batch_ids' = batch_ids]_vars
    /\ [][\A h \in RetryAfterHeaders :
            (/\ pc = "retry_call"
             /\ pc' = "retry_loop"
             /\ last_error' = ErrorText(RateLimitStatus, h))
            => sleeps' = Append(sleeps, IF h = NoRetryAfter
                                        THEN ClientRetryDelay ELSE h)]_vars

\* C16 witness: a batch's attempt was answered by a 429 error carrying
\* Retry-After: 7, the handler slept 7 s and the loop is at its next attempt.
C16_Witness ==
    /\ pc = "attempt"
    /\ n_429 >= 1
    /\ last_error = ErrorText(RateLimitStatus, 7)
    /\ last_sleep = 7

\* C17: in SpotifyAudioFeatures the j-th counted failure of a batch is
\* followed by a sleep of retry_delay * j when j < max_retries and by no
\* sleep when j = max_retries; an attempt answered by a 429 error leaves
\* the count unchanged; and every batch starts with the count at 0.
C17_ScaledBackoff ==
    /\ [][(IsSaf /\ pc = "attempt" /\ retry_count' = retry_count + 1)
            => IF retry_count' < max_retries
               THEN last_sleep' = retry_delay * retry_count' /\ pc' = "attempt"
               ELSE last_sleep' = 0 /\ pc' # "attempt"]_vars
    /\ [][(IsSaf /\ pc = "attempt" /\ last_error' # "None")
            => retry_count' = retry_count]_vars
    /\ [][(IsSaf /\ pc = "loop" /\ pc' = "attempt") => retry_count' = 0]_vars

\* C17 witness: in a second batch, after a rate-limit wait, the second
\* counted failure has just slept twice the retry delay.
C17_Witness ==
    /\ IsSaf
    /\ pc = "attempt"
    /\ batch_start > 0
    /\ n_429 >= 1
    /\ retry_count = 2
    /\ last_sleep = retry_delay * 2

\* C18: when the MCP fetch of fetch_audio_features(use_mcp=True) fails, the
\* function falls back to the traditional method: sp.audio_features is
\* called for the identifiers and what it yields is returned.
C18_McpFallback ==
    (entry = "mcp" /\ pc = "done" /\ last_error # "None")
        => total_calls > 0

\* C19: _retry_on_failure calls the operation at most max_retries times and
\* ends, whatever way the operation fails, by returning the operation's
\* result or by raising SpotifyAPIError.
C19_RetryOutcomes ==
    /\ calls <= ClientMaxRetries
    /\ result \in {"pending", "returned_result", "raised_SpotifyAPIError"}
    /\ pc = "retry_done" <=> result # "pending"

\* the attempt that just ran failed with a SpotifyException other than 429
NonRateLimitFailure ==
    /\ pc = "retry_call"
    /\ last_error' \in {ErrorText(st, NoRetryAfter) : st \in ErrorStatuses}
    /\ pc' = "retry_loop" \/ result' = "raised_SpotifyAPIError"

\* C20: a SpotifyException other than 429 on attempt a of _retry_on_failure
\* is followed by a sleep of retry_delay * 2^a when a < max_retries - 1,
\* and by the raise of SpotifyAPIError without any sleep on the last
\* attempt.
C20_ExponentialBackoff ==
    [][NonRateLimitFailure =>
         IF attempt < ClientMaxRetries - 1
         THEN /\ sleeps' = Append(sleeps, ClientRetryDelay * 2^attempt)
              /\ pc' = "retry_loop"
         ELSE /\ sleeps' = sleeps
              /\ result' = "raised_SpotifyAPIError"]_vars

\* C20 witness: three attempts failed with status 500; the waits were 2 s
\* and 4 s, and SpotifyAPIError was raised after the third.
C20_Witness ==
    /\ result = "raised_SpotifyAPIError"
    /\ calls = ClientMaxRetries
    /\ last_error = ErrorText(500, NoRetryAfter)
    /\ sleeps = <<2, 4>>

\* ============================== authentication.py: TokenManager.get_token
MinTokenLifetime == 300 \* self.min_token_lifetime
TokenRetries == 3       \* max_retries = 3 in get_token

\* seconds of lifetime the cached token has left when get_token is called
Lifetimes == {0 - 10, 30, MinTokenLifetime - 1, MinTokenLifetime, 3600}

\* auth_manager.is_token_expired(token): the OAuth library calls a token
\* expired when less than 60 s are left
is_token_expired(remaining) == remaining < 60

\* Mutation of NeedsRefresh: only an expired token is refreshed.
NeedsRefreshExpiredOnly(remaining) == is_token_expired(remaining)

\* is_token_expired(token) or (expires_at - time.time()) < min_token_lifetime
NeedsRefresh(remaining) ==
    is_token_expired(remaining) \/ remaining < MinTokenLifetime

\* get_token is called on a fresh TokenManager: a token is cached or not,
\* it has some lifetime left, it carries a refresh_token or not.
TokenInit ==
    /\ FetchIdle
    /\ entry = "token"
    /\ inputs \in [cached : BOOLEAN, remaining : Lifetimes,
                   has_refresh : BOOLEAN]
    /\ calls = 0
    /\ sleeps = <<>>
    /\ last_error = "None"
    /\ result = "pending"
    /\ last_refresh = 0
    /\ env = NoFile
    /\ received_auth_code = "None"
    /\ http_status = 0
    /\ sockets = 0
    /\ pc = "token_get"

TokenFrame == UNCHANGED <<entry, uris, track_ids, batch_size, batch_start,
                          batch_ids, retry_count, success, features_batch,
                          audio_features_list, merged, n_calls, n_429, kinds,
                          first_kind, last_sleep, out_mark, lookup_args,
                          lookup_at, total_calls, all_429, all_echo, inputs,
                          iterations, progress, env, received_auth_code,
                          http_status, sockets>>

\* token = get_cached_token(); if not token: return get_access_token(...);
\* a token that needs no refresh falls through to "return token".
TokenGet ==
    /\ pc = "token_get"
    /\ IF ~inputs.cached
       THEN /\ pc' = "token_done"
            /\ \/ result' = "returned_new_token" /\ UNCHANGED last_error
               \/ \E exc \in LibraryErrors :
                      result' = "raised_" \o exc /\ last_error' = exc
       ELSE IF NeedsRefresh(inputs.remaining)
       THEN pc' = "token_refresh" /\ UNCHANGED <<result, last_error>>
       ELSE /\ pc' = "token_done"
            /\ result' = "returned_cached"
            /\ UNCHANGED last_error
    /\ UNCHANGED <<attempt, calls, sleeps, last_refresh>>
    /\ TokenFrame

\* except Exception as e: raise SpotifyAuthError on the last attempt,
\* otherwise sleep 2 ** attempt
TokenExcept(exc) ==
    /\ last_error' = exc
    /\ IF attempt = TokenRetries - 1
       THEN /\ result' = "raised_SpotifyAuthError"
            /\ pc' = "token_done"
            /\ UNCHANGED <<attempt, sleeps>>
       ELSE /\ sleeps' = Append(sleeps, Pow2(attempt))
            /\ attempt' = attempt + 1
            /\ pc' = "token_refresh"
            /\ UNCHANGED result

\* if not refresh_token: raise SpotifyAuthError("No refresh token available")
TokenNoRefreshToken ==
    /\ pc = "token_refresh"
    /\ ~inputs.has_refresh
    /\ TokenExcept("SpotifyAuthError")
    /\ UNCHANGED <<calls, last_refresh>>
    /\ TokenFrame

\* token = refresh_access_token(refresh_token); self.last_refresh =
\* time.time(); return token
TokenRefreshReturns ==
    /\ pc = "token_refresh"
    /\ inputs.has_refresh
    /\ calls' = calls + 1
    /\ last_refresh' = 1
    /\ result' = "returned_refreshed"
    /\ pc' = "token_done"
    /\ UNCHANGED <<attempt, sleeps, last_error>>
    /\ TokenFrame

\* refresh_access_token raises
TokenRefreshRaises ==
    /\ pc = "token_refresh"
    /\ inputs.has_refresh
    /\ calls' = calls + 1
    /\ \E exc \in LibraryErrors : TokenExcept(exc)
    /\ UNCHANGED last_refresh
    /\ TokenFrame

TokenNext ==
    \/ TokenGet
    \/ TokenNoRefreshToken
    \/ TokenRefreshReturns
    \/ TokenRefreshRaises

TokenSpec == TokenInit /\ [][TokenNext]_vars

\* C21: get_token refreshes a cached token that is expired or has less than
\* 300 s left, with at most 3 refresh calls and sleeps of 1 s then 2 s
\* between failures; it returns the first refreshed token, setting
\* last_refresh only then, and raises SpotifyAuthError after the third
\* failure; a cached token with 300 s or more left is returned as it is
\* without a refresh call; without a cached token a full authorization is
\* started and nothing is refreshed.
C21_TokenRefresh ==
    /\ calls <= 3
    /\ sleeps = [i \in 1..attempt |-> IF i = 1 THEN 1 ELSE 2]
    /\ last_refresh # 0 <=> result = "returned_refreshed"
    /\ result = "returned_refreshed" => calls = attempt + 1
    /\ (inputs.cached /\ inputs.remaining < 300 /\ pc = "token_done")
          => \/ result = "returned_refreshed"
             \/ result = "raised_SpotifyAuthError" /\ sleeps = <<1, 2>>
    /\ (inputs.cached /\ inputs.remaining >= 300)
          => calls = 0 /\ (pc = "token_done" => result = "returned_cached")
    /\ ~inputs.cached
          => /\ calls = 0
             /\ pc = "token_done" =>
                   result \in {"returned_new_token"} \cup
                              {"raised_" \o exc : exc \in LibraryErrors}

\* C21 witness: a token with 299 s left was refreshed at the third attempt,
\* after two failed refresh calls and sleeps of 1 s and 2 s.
C21_Witness ==
    /\ inputs.cached
    /\ inputs.remaining = MinTokenLifetime - 1
    /\ result = "returned_refreshed"
    /\ calls = 3
    /\ sleeps = <<1, 2>>
    /\ last_refresh # 0

\* ===================================================== the .env file
\* A file is the list of its lines as readlines() yields them: the text of
\* each line as a sequence of pieces, and whether a newline ends it (only
\* the last line of a file can lack one).
MaxEnvLines == 2       \* longest initial .env file explored
MaxSaves == 2          \* rewrites of the file explored in a row

Line(text) == [text |-> text, nl |-> TRUE]

\* line.startswith(key)
StartsWith(line, key) == Len(line.text) >= 1 /\ line.text[1] = key

\* f.writelines(chunks) followed by a later readlines(): a chunk that does
\* not end in a newline runs into the chunk written after it.
RECURSIVE JoinLines(_)
JoinLines(chunks) ==
    IF Len(chunks) <= 1 THEN chunks
    ELSE IF chunks[1].nl THEN <<chunks[1]>> \o JoinLines(Tail(chunks))
    ELSE JoinLines(<<[text |-> chunks[1].text \o chunks[2].text,
                      nl |-> chunks[2].nl]>> \o SubSeq(chunks, 3, Len(chunks)))

\* the key each save function writes
AccessKey == "SPOTIFY_ACCESS_TOKEN="
RefreshKey == "SPOTIFY_REFRESH_TOKEN="
TokenKey == IF entry = "save_tokens" THEN RefreshKey ELSE AccessKey

Tokens == {"t1", "t2"}
EnvTexts == {<<"A=1">>, <<AccessKey, "old">>, <<RefreshKey, "old">>}

\* the files of at most n lines
EnvFiles(n) ==
    {ls \in SeqsUpTo([text : EnvTexts, nl : BOOLEAN], n) :
        \A i \in 1..Len(ls) : i < Len(ls) => ls[i].nl}

\* save_token / save_tokens: read the lines, drop those that start with the
\* key, append "KEY=token\n", write everything back.
SavedContent(file, key, token) ==
    LET env_content == IF file.exists THEN file.lines ELSE <<>>
        kept == SelectSeq(env_content, LAMBDA l : ~StartsWith(l, key))
    IN  [exists |-> TRUE,
         lines |-> JoinLines(Append(kept, Line(<<key, token>>)))]

\* One of the save functions is about to be called, the .env file absent or
\* holding any lines.
EnvInit ==
    /\ FetchIdle
    /\ entry \in {"save_token", "save_tokens"}
    /\ \/ env = NoFile
       \/ \E ls \in EnvFiles(MaxEnvLines) : env = [exists |-> TRUE, lines |-> ls]
    /\ inputs = env.lines
    /\ calls = 0
    /\ sleeps = <<>>
    /\ last_error = "None"
    /\ result = "pending"
    /\ last_refresh = 0
    /\ received_auth_code = "None"
    /\ http_status = 0
    /\ sockets = 0
    /\ pc = "save"

EnvFrame == UNCHANGED <<entry, uris, track_ids, batch_size, batch_start,
                        batch_ids, attempt, retry_count, success,
                        features_batch, audio_features_list, merged, n_calls,
                        n_429, kinds, first_kind, last_sleep, out_mark,
                        lookup_args, lookup_at, total_calls, all_429,
                        all_echo, inputs, sleeps, last_error, iterations,
                        progress, last_refresh, received_auth_code,
                        http_status, sockets, pc>>

\* save_token(token)
SaveToken ==
    /\ pc = "save"
    /\ entry = "save_token"
    /\ calls < MaxSaves
    /\ \E token \in Tokens :
          /\ env' = SavedContent(env, TokenKey, token)
          /\ result' = token
    /\ calls' = calls + 1
    /\ EnvFrame

\* save_tokens(tokens)
SaveTokens ==
    /\ pc = "save"
    /\ entry = "save_tokens"
    /\ calls < MaxSaves
    /\ \E token \in Tokens :
          /\ env' = SavedContent(env, TokenKey, token)
          /\ result' = token
    /\ calls' = calls + 1
    /\ EnvFrame

EnvNext == SaveToken \/ SaveTokens

EnvSpec == EnvInit /\ [][EnvNext]_vars

\* the lines of a file that do not start with the key
OtherLines(ls, key) == SelectSeq(ls, LAMBDA l : ~StartsWith(l, key))

\* C22: after any number of saves the .env file has exactly one line that
\* starts with the token key, that line carries the token saved last, and
\* the other lines are the initial other lines, unchanged and in order.
C22_SaveReplaces ==
    calls >= 1 =>
        /\ Cardinality({i \in 1..Len(env.lines) :
                           StartsWith(env.lines[i], TokenKey)}) = 1
        /\ \E i \in 1..Len(env.lines) :
               env.lines[i] = Line(<<TokenKey, result>>)
        /\ OtherLines(env.lines, TokenKey) = OtherLines(inputs, TokenKey)

\* ======================= the local callback server of the authorization
\* spotify_auth_local.py (entry "local": get_spotify_auth and main) and
\* spotify_auth_setup.py (entry "setup": handle_auth and main)
MaxAuthCalls == 2      \* authorizations run in one process

Codes == {"c1", "c2"}

\* What the one handled request carries: whether '/callback' occurs in its
\* path, its code parameter and whether it has an error parameter.
Requests == [callback : BOOLEAN, code : Codes \cup {"None"}, error : BOOLEAN]

\* Mutation of do_GET: the code parameter is looked at before the error
\* parameter.
do_GET_CodeFirst(req) ==
    IF ~req.callback THEN [status |-> 404, recorded |-> FALSE]
    ELSE IF req.code # "None" THEN [status |-> 200, recorded |-> TRUE]
    ELSE [status |-> 400, recorded |-> FALSE]

\* do_GET: the status of the response and whether the code is recorded
do_GET(req) ==
    IF ~req.callback THEN [status |-> 404, recorded |-> FALSE]
    ELSE IF req.error THEN [status |-> 400, recorded |-> FALSE]
    ELSE IF req.code = "None" THEN [status |-> 400, recorded |-> FALSE]
    ELSE [status |-> 200, recorded |-> TRUE]

CallbackInit ==
    /\ FetchIdle
    /\ entry \in {"local", "setup"}
    /\ inputs = <<>>
    /\ calls = 0
    /\ sleeps = <<>>
    /\ last_error = "None"
    /\ result = "pending"
    /\ last_refresh = 0
    /\ env = NoFile
    /\ received_auth_code = "None"
    /\ http_status = 0
    /\ sockets = 0
    /\ pc = "cb_idle"

CallbackFrame == UNCHANGED <<entry, uris, track_ids, batch_size, batch_start,
                             batch_ids, attempt, retry_count, success,
                             features_batch, audio_features_list, merged,
                             n_calls, n_429, kinds, first_kind, last_sleep,
                             out_mark, lookup_args, lookup_at, total_calls,
                             all_429, all_echo, sleeps, last_error,
                             iterations, progress, last_refresh, env>>

\* get_spotify_auth / handle_auth up to the wait for the request: missing
\* credentials raise ValueError before any server exists, handle_auth's
\* settings question may end in sys.exit(1), HTTPServer(...) raises OSError
\* when the port cannot be bound; otherwise the server listens.
\* handle_auth sets server.auth_code = None on its new server.
CallbackStart ==
    /\ pc = "cb_idle"
    /\ calls < MaxAuthCalls
    /\ calls' = calls + 1
    /\ inputs' = <<>>
    /\ http_status' = 0
    /\ received_auth_code' =
          IF entry = "setup" THEN "None" ELSE received_auth_code
    /\ \/ /\ pc' = "cb_listen"
          /\ sockets' = sockets + 1
          /\ result' = "pending"
       \/ /\ pc' = "cb_returned"
          /\ \E exc \in {"ValueError", "OSError"} : result' = "raised_" \o exc
          /\ UNCHANGED sockets
       \/ /\ entry = "setup"
          /\ pc' = "cb_returned"
          /\ result' = "raised_SystemExit"
          /\ UNCHANGED sockets
    /\ CallbackFrame

\* server.handle_request() handles one request with do_GET; then
\* get_spotify_auth returns received_auth_code and its finally clause
\* closes the server; handle_auth reads server.auth_code, closes the
\* server and raises ValueError when there is no code.
CallbackHandle ==
    /\ pc = "cb_listen"
    /\ \E req \in Requests :
          LET answer == do_GET(req)
              code == IF answer.recorded THEN req.code
                      ELSE IF entry = "setup" THEN "None"
                      ELSE received_auth_code
          IN  /\ inputs' = Append(inputs, req)
              /\ http_status' = answer.status
              /\ received_auth_code' = code
              /\ result' = IF entry = "setup" /\ code = "None"
                           THEN "raised_ValueError" ELSE code
    /\ sockets' = sockets - 1
    /\ pc' = "cb_returned"
    /\ UNCHANGED calls
    /\ CallbackFrame

\* main: an exception ends the program, "if not auth_code: return" ends
\* it too, otherwise get_tokens(auth_code, redirect_uri) is started.
CallbackMain ==
    /\ pc = "cb_returned"
    /\ pc' = IF result \in Codes THEN "cb_exchange" ELSE "cb_end"
    /\ UNCHANGED <<inputs, calls, result, received_auth_code, http_status,
                   sockets>>
    /\ CallbackFrame

\* the same process authorizes again
CallbackAgain ==
    /\ pc \in {"cb_exchange", "cb_end"}
    /\ calls < MaxAuthCalls
    /\ pc' = "cb_idle"
    /\ UNCHANGED <<inputs, calls, result, received_auth_code, http_status,
                   sockets>>
    /\ CallbackFrame

CallbackNext ==
    \/ CallbackStart
    \/ CallbackHandle
    \/ CallbackMain
    \/ CallbackAgain

CallbackSpec == CallbackInit /\ [][CallbackNext]_vars

\* a callback request with a code parameter and no error parameter
Clean(req) == req.callback /\ req.code # "None" /\ ~req.error

\* C23: each authorization handles at most one request, and exactly one
\* once the server has answered; the answer is 200 with the code recorded
\* only for a callback with a code and no error, 400 with nothing recorded
\* for any other callback, 404 with nothing recorded for another path;
\* get_tokens is never started without a recorded code; and no listening
\* socket is left open once the authorization function has ended.
C23_CleanCallbackOnly ==
    /\ [](/\ Len(inputs) <= 1
          /\ http_status # 0 <=> Len(inputs) = 1
          /\ Len(inputs) = 1 =>
                LET req == inputs[1]
                IN  /\ http_status = 200 <=> Clean(req)
                    /\ Clean(req) => received_auth_code = req.code
                    /\ (req.callback /\ ~Clean(req)) => http_status = 400
                    /\ ~req.callback => http_status = 404
          /\ pc = "cb_exchange" => received_auth_code # "None"
          /\ pc # "cb_listen" => sockets = 0)
    /\ [][(pc = "cb_listen" /\ ~Clean(inputs'[1]))
            => received_auth_code' \in {received_auth_code, "None"}]_vars

\* C23 witness: a callback carrying both a code and an error was answered
\* with 400, no code is recorded and the program ended without get_tokens.
C23_Witness ==
    /\ pc = "cb_end"
    /\ Len(inputs) = 1
    /\ inputs[1].callback /\ inputs[1].error /\ inputs[1].code = "c1"
    /\ http_status = 400
    /\ received_auth_code = "None"
    /\ sockets = 0

\* C25: the code get_spotify_auth returns is the one the request handled
\* in that call carried; when that request recorded no code the call
\* returns none.
C25_CodeOfThisCall ==
    (entry = "local" /\ pc = "cb_returned" /\ Len(inputs) = 1)
        => result = IF Clean(inputs[1]) THEN inputs[1].code ELSE "None"

\* C24: the MCP route never raises and returns one entry per identifier,
\* and what it returns is the answer of the MCP tool (the features the tool
\* produced), not the list of None that stands for a failed fetch.
C24_McpDelivers ==
    (entry = "mcp" /\ pc = "done")
        => /\ Len(audio_features_list) = Len(track_ids)
           /\ last_error = "None"

\* ================================== batch sizes the fetchers do not reject
\* Neither fetcher rejects a batch_size: SpotifyAudioFeatures.__init__
\* stores min(batch_size, 100), the Spotify.py function uses its argument.
SizeInit ==
    /\ InitCommon
    /\ WrapIdle
    /\ ExtIdle
    /\ uris = <<>>
    /\ track_ids \in SeqsUpTo(OptIds, MaxLen)
    /\ \E bs \in 0..MaxBatch :
          \/ entry = "trad" /\ batch_size = bs
          \/ entry = "saf" /\ batch_size = Min(bs, ApiLimit)
    /\ pc = "loop"

SizeNext ==
    \/ WindowSkip
    \/ WindowStart
    \/ TradReturns
    \/ TradRaisesSpotify
    \/ TradRaisesOther
    \/ TradResolve
    \/ SafReturns
    \/ SafRaisesSpotify
    \/ SafRaisesOther
    \/ SafResolve
    \/ Return

SizeSpec == SizeInit /\ [][SizeNext]_vars

\* C26: while every lookup succeeds, the outer loop of either fetcher makes
\* at most ceil(len(track_ids) / batch_size) passes, hence never more than
\* len(track_ids), for every batch_size the fetcher takes.
C26_LoopBounded ==
    all_echo =>
        /\ iterations <= Len(track_ids)
        /\ batch_size > 0 => iterations <= NumWindows

\* C27: over one fetch of SpotifyAudioFeatures the values given to
\* progress_callback never decrease and lie in (0, 100]; once the function
\* has returned, one value was reported per window of the input and the
\* last one is 100.  (Values are numerators over len(track_ids).)
C27_ProgressReported ==
    IsSaf =>
        /\ \A i \in 1..Len(progress) :
              /\ progress[i] > 0
              /\ progress[i] <= 100 * Len(track_ids)
              /\ i > 1 => progress[i - 1] <= progress[i]
        /\ (pc = "done" /\ Len(track_ids) > 0) =>
              /\ Len(progress) = NumWindows
              /\ progress[Len(progress)] = 100 * Len(track_ids)

\* ============================ 'Spotify copy.py' main: the .env rewrite
RedirectKey == "SPOTIPY_REDIRECT_URI="
AppendedKey == "SPOTIFY_REDIRECT_URI="   \* the key of the appended line
NewUri == "http://127.0.0.1:9090/callback"
RewriteTexts == {<<"A=1">>, <<RedirectKey, "old">>, <<RedirectKey, NewUri>>}

\* if os.path.exists('.env'): every line that starts with
\* SPOTIPY_REDIRECT_URI= is written as that key with the new URI, every
\* other line as it is; if no line was replaced, '\n' and the new entry
\* are written after them.
Rewritten(file) ==
    LET env_lines == file.lines
        env_updated == \E i \in 1..Len(env_lines) :
                           StartsWith(env_lines[i], RedirectKey)
        copied == [i \in 1..Len(env_lines) |->
                      IF StartsWith(env_lines[i], RedirectKey)
                      THEN Line(<<RedirectKey, NewUri>>)
                      ELSE env_lines[i]]
        written == IF env_updated THEN copied
                   ELSE copied \o <<Line(<<>>), Line(<<AppendedKey, NewUri>>)>>
    IN  IF file.exists
        THEN [exists |-> TRUE, lines |-> JoinLines(written)]
        ELSE file

RewriteInit ==
    /\ FetchIdle
    /\ entry = "rewrite"
    /\ \/ env = NoFile
       \/ \E ls \in {f \in SeqsUpTo([text : RewriteTexts, nl : BOOLEAN],
                                    MaxEnvLines) :
                        \A i \in 1..Len(f) : i < Len(f) => f[i].nl} :
             env = [exists |-> TRUE, lines |-> ls]
    /\ inputs = env.lines
    /\ calls = 0
    /\ sleeps = <<>>
    /\ last_error = "None"
    /\ result = "pending"
    /\ last_refresh = 0
    /\ received_auth_code = "None"
    /\ http_status = 0
    /\ sockets = 0
    /\ pc = "rewrite"

\* one run of main, up to load_dotenv
RewriteEnv ==
    /\ pc = "rewrite"
    /\ calls < MaxSaves + 1
    /\ env' = Rewritten(env)
    /\ calls' = calls + 1
    /\ result' = IF env' = env THEN "same" ELSE "changed"
    /\ EnvFrame

RewriteSpec == RewriteInit /\ [][RewriteEnv]_vars

\* C28: after a run on an existing file the file has exactly one line
\* SPOTIPY_REDIRECT_URI=<new URI>, its other lines are the initial ones,
\* and a further run leaves the content as it is, whether or not the key
\* was there at first.
C28_RewriteIdempotent ==
    (calls >= 1 /\ env.exists) =>
        /\ Cardinality({i \in 1..Len(env.lines) :
                           env.lines[i] = Line(<<RedirectKey, NewUri>>)}) = 1
        /\ OtherLines(env.lines, RedirectKey) = OtherLines(inputs, RedirectKey)
        /\ calls >= 2 => result = "same"

====
